---- MODULE Spec2Model ----
(***************************************************************************)
(* vdator: the paste parser (src/vdator/paste_parser.py).                  *)
(*                                                                         *)
(* A text is a sequence of lines and a line is a sequence of characters    *)
(* (one-character strings), so that strip(), lower(), startswith(),        *)
(* split() and re.split() are computed, character by character, the way    *)
(* Python computes them.  PasteParser.parse is one frame of local          *)
(* variables per call; one step of the model is one iteration of the loop  *)
(* `for l in lines` (paste_parser.py:66-209).  The line of an iteration    *)
(* is drawn when the loop reaches it, and recorded in the frame's `text`.  *)
(***************************************************************************)
EXTENDS Integers, Sequences, FiniteSets, TLC

VARIABLES
    env,      \* the process environment read at import (paste_parser.py:9-14)
    alphabet, \* the lines the pasted texts are made of
    mod,      \* the module: its import status and its three globals
    frame,    \* frame[c]: the local variables of call c of PasteParser.parse
    lookup    \* a codec name and what the methods of CodecsParser answered on it

vars == <<env, alphabet, mod, frame, lookup>>

(***************************************************************************)
(* Bounds of the model.                                                    *)
(***************************************************************************)
\* the longest text a call reads, in lines
MaxLines == 5
\* the longest text that is parsed a second time (specification SpecTwice)
MaxLinesTwice == 4
\* the lines two interleaved calls read together (specification SpecBoth)
MaxLinesBoth == 2

\* Python's None, as the value of sect, sect2, sect3 and of a missing bdinfo["type"]
None == "None"
\* os.environ.get(name) of a variable that is not set: None, no string
NotSet == <<"None">>

(***************************************************************************)
(* Python's str operations, on sequences of characters.                    *)
(***************************************************************************)
Upper == <<"A","B","C","D","E","F","G","H","I","J","K","L","M",
           "N","O","P","Q","R","S","T","U","V","W","X","Y","Z">>
LowerOf == <<"a","b","c","d","e","f","g","h","i","j","k","l","m",
             "n","o","p","q","r","s","t","u","v","w","x","y","z">>

\* str.lower() of one character
LowerChar(c) ==
    IF \E k \in 1..26 : Upper[k] = c
    THEN LowerOf[CHOOSE k \in 1..26 : Upper[k] = c]
    ELSE c

\* str.lower()
Lower(s) == [k \in 1..Len(s) |-> LowerChar(s[k])]

\* the characters str.strip() removes that a line can hold (no line breaks)
IsSpace(c) == c \in {" ", "\t"}

\* str.lstrip()
LStrip(s) ==
    IF \A k \in 1..Len(s) : IsSpace(s[k]) THEN <<>>
    ELSE SubSeq(s, CHOOSE k \in 1..Len(s) :
                       /\ ~IsSpace(s[k])
                       /\ \A j \in 1..(k-1) : IsSpace(s[j]), Len(s))

\* str.rstrip()
RStrip(s) ==
    IF \A k \in 1..Len(s) : IsSpace(s[k]) THEN <<>>
    ELSE SubSeq(s, 1, CHOOSE k \in 1..Len(s) :
                          /\ ~IsSpace(s[k])
                          /\ \A j \in (k+1)..Len(s) : IsSpace(s[j]))

\* str.strip()
Strip(s) == RStrip(LStrip(s))

\* str.rstrip(ch): every trailing ch is removed
RStripCh(s, ch) ==
    IF \A k \in 1..Len(s) : s[k] = ch THEN <<>>
    ELSE SubSeq(s, 1, CHOOSE k \in 1..Len(s) :
                          /\ s[k] # ch
                          /\ \A j \in (k+1)..Len(s) : s[j] = ch)

\* str.startswith(p)
StartsWith(s, p) == Len(p) <= Len(s) /\ SubSeq(s, 1, Len(p)) = p

\* p occurs in s at position k
OccursAt(s, p, k) == k + Len(p) - 1 <= Len(s) /\ SubSeq(s, k, k + Len(p) - 1) = p

\* str.find(p) + 1: the first position of p in s, 0 when there is none
Find(s, p) ==
    IF \E k \in 1..(Len(s) + 1) : OccursAt(s, p, k)
    THEN CHOOSE k \in 1..(Len(s) + 1) :
             /\ OccursAt(s, p, k)
             /\ \A j \in 1..(k-1) : ~OccursAt(s, p, j)
    ELSE 0

\* p in s
Contains(s, p) == Find(s, p) # 0

\* str.split(sep, 1), sep not empty
Split1(s, sep) ==
    LET k == Find(s, sep)
    IN  IF k = 0 THEN <<s>>
        ELSE <<SubSeq(s, 1, k - 1), SubSeq(s, k + Len(sep), Len(s))>>

\* str.split(sep), sep not empty
RECURSIVE Split(_, _)
Split(s, sep) ==
    LET k == Find(s, sep)
    IN  IF k = 0 THEN <<s>>
        ELSE <<SubSeq(s, 1, k - 1)>> \o Split(SubSeq(s, k + Len(sep), Len(s)), sep)

\* sep.join(parts)
RECURSIVE Join(_, _)
Join(parts, sep) ==
    IF parts = <<>> THEN <<>>
    ELSE IF Len(parts) = 1 THEN parts[1]
    ELSE parts[1] \o sep \o Join(Tail(parts), sep)

\* parts[:-1]
AllButLast(parts) == IF parts = <<>> THEN <<>> ELSE SubSeq(parts, 1, Len(parts) - 1)

\* re.split(pattern, s, flags=re.IGNORECASE) for a pattern that is a literal:
\* pat is the literal in lower case
RECURSIVE ReSplitIgnoreCase(_, _)
ReSplitIgnoreCase(pat, s) ==
    LET k == Find(Lower(s), pat)
    IN  IF k = 0 THEN <<s>>
        ELSE <<SubSeq(s, 1, k - 1)>>
             \o ReSplitIgnoreCase(pat, SubSeq(s, k + Len(pat), Len(s)))

(***************************************************************************)
(* The literals of paste_parser.py.                                        *)
(***************************************************************************)
\* l2.startswith("quick summary")
kQuickSummary ==
    <<"q", "u", "i", "c", "k", " ", "s", "u", "m", "m", "a", "r", "y">>
\* l2.startswith("playlist report")
kPlaylistReport ==
    <<"p", "l", "a", "y", "l", "i", "s", "t", " ", "r", "e", "p", "o", "r",
    "t">>
\* l2.startswith("eac3to v")
kEac3to ==
    <<"e", "a", "c", "3", "t", "o", " ", "v">>
\* l2.startswith("general")
kGeneral ==
    <<"g", "e", "n", "e", "r", "a", "l">>
\* l2.startswith("video:")
kVideo ==
    <<"v", "i", "d", "e", "o", ":">>
\* l2.startswith("audio:")
kAudio ==
    <<"a", "u", "d", "i", "o", ":">>
\* l2.startswith("subtitle:")
kSubtitle ==
    <<"s", "u", "b", "t", "i", "t", "l", "e", ":">>
\* l2.startswith("subtitles:")
kSubtitles ==
    <<"s", "u", "b", "t", "i", "t", "l", "e", "s", ":">>
\* l2.startswith("-----")
kDashes ==
    <<"-", "-", "-", "-", "-">>
\* l.startswith("Done.")
kDone ==
    <<"D", "o", "n", "e", ".">>
\* "ac3 embedded" in ...lower()
kAc3Embedded ==
    <<"a", "c", "3", " ", "e", "m", "b", "e", "d", "d", "e", "d">>
\* the pattern r"\(ac3 embedded:" of re.split, which matches this literal
kAc3Pattern ==
    <<"(", "a", "c", "3", " ", "e", "m", "b", "e", "d", "d", "e", "d", ":">>
\* "Compatibility Track / Dolby Digital Audio / "
kCompat ==
    <<"C", "o", "m", "p", "a", "t", "i", "b", "i", "l", "i", "t", "y", " ",
    "T", "r", "a", "c", "k", " ", "/", " ", "D", "o", "l", "b", "y", " ",
    "D", "i", "g", "i", "t", "a", "l", " ", "A", "u", "d", "i", "o", " ",
    "/", " ">>
\* IGNORE_AFTER_LINE_METHOD == "equals"
kEquals ==
    <<"e", "q", "u", "a", "l", "s">>
\* IGNORE_AFTER_LINE_METHOD == "contains"
kContains ==
    <<"c", "o", "n", "t", "a", "i", "n", "s">>

(***************************************************************************)
(* The lines the texts of the model are made of.                           *)
(***************************************************************************)
\* "QUICK SUMMARY:"
LQuick ==
    <<"Q", "U", "I", "C", "K", " ", "S", "U", "M", "M", "A", "R", "Y", ":">>
\* "PLAYLIST REPORT:"
LPlaylist ==
    <<"P", "L", "A", "Y", "L", "I", "S", "T", " ", "R", "E", "P", "O", "R",
    "T", ":">>
\* "eac3to v3.34"
LEac1 ==
    <<"e", "a", "c", "3", "t", "o", " ", "v", "3", ".", "3", "4">>
\* " Eac3to v3.27" (indented, other case)
LEac2 ==
    <<" ", "E", "a", "c", "3", "t", "o", " ", "v", "3", ".", "2", "7">>
\* "General"
LGeneral ==
    <<"G", "e", "n", "e", "r", "a", "l">>
\* "Done."
LDone ==
    <<"D", "o", "n", "e", ".">>
\* "  " (a blank line: white space only)
LBlank ==
    <<" ", " ">>
\* "a 1" (a line no rule recognises)
LPlain ==
    <<"a", " ", "1">>
\* "Video: V"
LVideo ==
    <<"V", "i", "d", "e", "o", ":", " ", "V">>
\* "Audio: D (AC3 Embedded: E / F)"
LAudioCompat ==
    <<"A", "u", "d", "i", "o", ":", " ", "D", " ", "(", "A", "C", "3", " ",
    "E", "m", "b", "e", "d", "d", "e", "d", ":", " ", "E", " ", "/", " ",
    "F", ")">>
\* "Audio: D ac3 embedded" (the marker words without "(" and ":")
LAudioBare ==
    <<"A", "u", "d", "i", "o", ":", " ", "D", " ", "a", "c", "3", " ", "e",
    "m", "b", "e", "d", "d", "e", "d">>
\* "Audio: D (r)"
LAudioRemark ==
    <<"A", "u", "d", "i", "o", ":", " ", "D", " ", "(", "r", ")">>
\* "Subtitle: S"
LSubtitle ==
    <<"S", "u", "b", "t", "i", "t", "l", "e", ":", " ", "S">>
\* "VIDEO:"
LHeadVideo ==
    <<"V", "I", "D", "E", "O", ":">>
\* "AUDIO:"
LHeadAudio ==
    <<"A", "U", "D", "I", "O", ":">>
\* "SUBTITLES:"
LHeadSubtitles ==
    <<"S", "U", "B", "T", "I", "T", "L", "E", "S", ":">>
\* "-----"
LDashes ==
    <<"-", "-", "-", "-", "-">>
\* "-x / y"
LMinus ==
    <<"-", "x", " ", "/", " ", "y">>
\* "D / E"
LRow ==
    <<"D", " ", "/", " ", "E">>
\* "D (ac3 embedded: E / F) / G"
LRowCompat ==
    <<"D", " ", "(", "a", "c", "3", " ", "e", "m", "b", "e", "d", "d", "e",
    "d", ":", " ", "E", " ", "/", " ", "F", ")", " ", "/", " ", "G">>
\* "Foo x"
LSkip ==
    <<"F", "o", "o", " ", "x">>
\* "END"
LEnd ==
    <<"E", "N", "D">>
\* "x END"
LHasEnd ==
    <<"x", " ", "E", "N", "D">>

(***************************************************************************)
(* Values of the three environment variables.                              *)
(***************************************************************************)
\* " END"
EEnd ==
    <<" ", "E", "N", "D">>
\* "foo"
EFoo ==
    <<"f", "o", "o">>
\* "foo,"
EFooComma ==
    <<"f", "o", "o", ",">>
\* ",foo"
ECommaFoo ==
    <<",", "f", "o", "o">>
\* "Foo"
EFooUpper ==
    <<"F", "o", "o">>

(***************************************************************************)
(* The module globals (paste_parser.py:9-14).                              *)
(***************************************************************************)
\* IGNORE_AFTER_LINE = os.environ.get("IGNORE_AFTER_LINE").strip()
IGNORE_AFTER_LINE == mod.IGNORE_AFTER_LINE
\* IGNORE_AFTER_LINE_METHOD = os.environ.get("IGNORE_AFTER_LINE_METHOD").strip()
IGNORE_AFTER_LINE_METHOD == mod.IGNORE_AFTER_LINE_METHOD
\* IGNORE_UNTIL_BLANK_LINE_PREFIXES = [x.strip() for x in os.getenv(..., "").strip().split(",")]
IGNORE_UNTIL_BLANK_LINE_PREFIXES == mod.IGNORE_UNTIL_BLANK_LINE_PREFIXES

\* [x.strip() for x in raw.strip().split(",")]
PrefixList(raw) ==
    LET parts == Split(Strip(raw), <<",">>)
    IN  [k \in 1..Len(parts) |-> Strip(parts[k])]

\* The import of paste_parser: os.environ.get returns None for a variable
\* that is not set and None.strip() raises AttributeError; os.getenv(name, "")
\* returns "" for one that is not set.
LoadedModule(e) ==
    IF e.IGNORE_AFTER_LINE = NotSet \/ e.IGNORE_AFTER_LINE_METHOD = NotSet
    THEN [status |-> "AttributeError",
          IGNORE_AFTER_LINE |-> NotSet,
          IGNORE_AFTER_LINE_METHOD |-> NotSet,
          IGNORE_UNTIL_BLANK_LINE_PREFIXES |-> <<>>]
    ELSE [status |-> "loaded",
          IGNORE_AFTER_LINE |-> Strip(e.IGNORE_AFTER_LINE),
          IGNORE_AFTER_LINE_METHOD |-> Strip(e.IGNORE_AFTER_LINE_METHOD),
          IGNORE_UNTIL_BLANK_LINE_PREFIXES |->
              PrefixList(IF e.IGNORE_UNTIL_BLANK_LINE_PREFIXES = NotSet
                         THEN <<>> ELSE e.IGNORE_UNTIL_BLANK_LINE_PREFIXES)]

(***************************************************************************)
(* The enumerations (paste_parser.py:17-39).                               *)
(***************************************************************************)
BDInfoType == {"BDInfoType.QUICK_SUMMARY", "BDInfoType.PLAYLIST_REPORT"}
Section == {"QUICK_SUMMARY", "MEDIAINFO", "PLAYLIST_REPORT", "EAC3TO_LOG"}
Section2 == {"PLAYLIST_VIDEO", "PLAYLIST_AUDIO", "PLAYLIST_SUBTITLES"}
Section3 == {"PLAYLIST_INNER_VIDEO", "PLAYLIST_INNER_AUDIO"}

(***************************************************************************)
(* The track formatter, self.bdinfo_parser: bdinfo_parser.py is not among  *)
(* the sources.  A track name is opaque: the record of the call that made  *)
(* it.  The two playlist formatters return a name or nothing; here they    *)
(* return nothing for a row without a "/".                                 *)
(***************************************************************************)
\* the falsy result of a playlist formatter
NoName == [by |-> "None", of |-> <<>>]
format_track_name(raw) == [by |-> "format_track_name", of |-> raw]
format_video_track_name(raw) == [by |-> "format_video_track_name", of |-> raw]
playlist_report_format_video_track_name(row) ==
    IF Contains(row, <<"/">>)
    THEN [by |-> "playlist_report_format_video_track_name", of |-> row]
    ELSE NoName
playlist_report_format_audio_track_name(row) ==
    IF Contains(row, <<"/">>)
    THEN [by |-> "playlist_report_format_audio_track_name", of |-> row]
    ELSE NoName

(***************************************************************************)
(* PasteParser.parse: the local variables of one call.                     *)
(***************************************************************************)
\* paste_parser.py:54-65; bdinfo has no key "type" until a heading sets it
FreshLocals ==
    [bdinfo |-> [video |-> <<>>, audio |-> <<>>, subtitle |-> <<>>, type |-> None],
     mediainfo |-> <<>>,
     eac3to |-> <<>>,
     eac3to_index |-> -1,
     sect |-> None,
     sect2 |-> None,
     sect3 |-> None,
     ignore_next_lines |-> FALSE,
     did_first_mediainfo |-> FALSE]

\* The frame of a call: the locals, where the call is (pc), the lines the loop
\* has read (text[1..i]; text holds more than i lines only when the whole text
\* is known beforehand), and what the call returned or raised (ret).
NoFrame ==
    [pc |-> "idle", text |-> <<>>, i |-> 0, known |-> FALSE, ret |-> None]
        @@ FreshLocals

\* the mutant of C10: the first-MediaInfo flag is an attribute of the
\* PasteParser and outlives the call
EnterParseStale(text, known) ==
    [pc |-> "loop", text |-> text, i |-> 0, known |-> known, ret |-> None]
        @@ [FreshLocals EXCEPT
               !.did_first_mediainfo = frame[1].did_first_mediainfo]

\* the entry of parse(text), lines = text.splitlines()
EnterParse(text, known) ==
    [pc |-> "loop", text |-> text, i |-> 0, known |-> known, ret |-> None]
        @@ FreshLocals

\* the mutant of C9: the name is put in front, list.insert(0, name)
AppendTrackInFront(f, kind, name) ==
    [f EXCEPT !.bdinfo[kind] = <<name>> \o @]

\* list.append on one of the three track lists of bdinfo
AppendTrack(f, kind, name) ==
    [f EXCEPT !.bdinfo[kind] = Append(@, name)]

\* an exception leaves parse at once
Raise(f, exc) == [f EXCEPT !.pc = "raised", !.ret = [raised |-> exc]]

(***************************************************************************)
(* _isIgnoreAfterLine (paste_parser.py:213-232).                           *)
(***************************************************************************)
isIgnoreAfterLine(l) ==
    IF IGNORE_AFTER_LINE_METHOD = kEquals THEN IGNORE_AFTER_LINE = l
    ELSE IF IGNORE_AFTER_LINE_METHOD = kContains THEN Contains(l, IGNORE_AFTER_LINE)
    ELSE FALSE

(***************************************************************************)
(* paste_parser.py:80-88: does the line start the skipping of the lines    *)
(* up to the next blank line?                                              *)
(***************************************************************************)
StartsIgnoredBlock(l) ==
    /\ IGNORE_UNTIL_BLANK_LINE_PREFIXES # <<>>
    /\ IGNORE_UNTIL_BLANK_LINE_PREFIXES[1] # <<>>
    /\ LET l3 == Lower(Strip(l))
       IN  \E k \in 1..Len(IGNORE_UNTIL_BLANK_LINE_PREFIXES) :
               StartsWith(l3, IGNORE_UNTIL_BLANK_LINE_PREFIXES[k])

(***************************************************************************)
(* paste_parser.py:92-109: determine the current section.                  *)
(***************************************************************************)
\* the mutant of C2: every "general" line opens the MediaInfo
DetermineSectionReopens(f, l2) ==
    IF StartsWith(l2, kQuickSummary)
    THEN [f EXCEPT !.sect = "QUICK_SUMMARY",
                   !.bdinfo.type = "BDInfoType.QUICK_SUMMARY"]
    ELSE IF StartsWith(l2, kPlaylistReport)
    THEN [f EXCEPT !.sect = "PLAYLIST_REPORT",
                   !.bdinfo.type = "BDInfoType.PLAYLIST_REPORT"]
    ELSE IF StartsWith(l2, kEac3to)
    THEN [f EXCEPT !.sect = "EAC3TO_LOG",
                   !.eac3to = Append(@, <<>>),
                   !.eac3to_index = @ + 1]
    ELSE IF StartsWith(l2, kGeneral)
    THEN [f EXCEPT !.sect = "MEDIAINFO", !.did_first_mediainfo = TRUE]
    ELSE f

\* the mutant of C18: the first heading of a disc report settles the type
DetermineSectionFirstType(f, l2) ==
    IF StartsWith(l2, kQuickSummary)
    THEN [f EXCEPT !.sect = "QUICK_SUMMARY",
                   !.bdinfo.type = IF @ = None THEN "BDInfoType.QUICK_SUMMARY" ELSE @]
    ELSE IF StartsWith(l2, kPlaylistReport)
    THEN [f EXCEPT !.sect = "PLAYLIST_REPORT",
                   !.bdinfo.type = IF @ = None THEN "BDInfoType.PLAYLIST_REPORT" ELSE @]
    ELSE IF StartsWith(l2, kEac3to)
    THEN [f EXCEPT !.sect = "EAC3TO_LOG",
                   !.eac3to = Append(@, <<>>),
                   !.eac3to_index = @ + 1]
    ELSE IF StartsWith(l2, kGeneral)
    THEN IF f.did_first_mediainfo
         THEN [f EXCEPT !.sect = None]
         ELSE [f EXCEPT !.sect = "MEDIAINFO", !.did_first_mediainfo = TRUE]
    ELSE f

DetermineSection(f, l2) ==
    IF StartsWith(l2, kQuickSummary)
    THEN [f EXCEPT !.sect = "QUICK_SUMMARY",
                   !.bdinfo.type = "BDInfoType.QUICK_SUMMARY"]
    ELSE IF StartsWith(l2, kPlaylistReport)
    THEN [f EXCEPT !.sect = "PLAYLIST_REPORT",
                   !.bdinfo.type = "BDInfoType.PLAYLIST_REPORT"]
    ELSE IF StartsWith(l2, kEac3to)
    THEN [f EXCEPT !.sect = "EAC3TO_LOG",
                   !.eac3to = Append(@, <<>>),
                   !.eac3to_index = @ + 1]
    ELSE IF StartsWith(l2, kGeneral)
    THEN IF f.did_first_mediainfo
         THEN [f EXCEPT !.sect = None]
         ELSE [f EXCEPT !.sect = "MEDIAINFO", !.did_first_mediainfo = TRUE]
    ELSE f

(***************************************************************************)
(* paste_parser.py:111-142: a line of the quick summary.  A line that      *)
(* starts with "video:", "audio:" or "subtitle:" has a colon, so           *)
(* l.split(":", 1)[1] is there.                                            *)
(***************************************************************************)
QuickSummaryLine(f, l, l2) ==
    IF StartsWith(l2, kVideo)
    THEN AppendTrack(f, "video", format_video_track_name(Split1(l, <<":">>)[2]))
    ELSE IF StartsWith(l2, kAudio)
    THEN LET audio_name == Strip(Split1(l, <<":">>)[2])
         IN  IF Contains(Lower(audio_name), kAc3Embedded)
             THEN LET audio_parts == ReSplitIgnoreCase(kAc3Pattern, audio_name)
                      f1 == AppendTrack(f, "audio", format_track_name(audio_parts[1]))
                  IN  IF Len(audio_parts) < 2
                      THEN Raise(f1, "IndexError")   \* audio_parts[1]
                      ELSE AppendTrack(f1, "audio", format_track_name(
                               kCompat \o RStripCh(Strip(audio_parts[2]), ")")))
             ELSE LET l_1 == IF Contains(l, <<"(">>) THEN Split(l, <<"(">>)[1] ELSE l
                      l_2 == Strip(l_1)
                  IN  AppendTrack(f, "audio",
                                  format_track_name(Split1(l_2, <<":">>)[2]))
    ELSE IF StartsWith(l2, kSubtitle)
    THEN AppendTrack(f, "subtitle", format_track_name(Split1(l, <<":">>)[2]))
    ELSE f

(***************************************************************************)
(* paste_parser.py:144-200: a line of the playlist report.                 *)
(***************************************************************************)
\* paste_parser.py:146-151
PlaylistHeading(f, l2) ==
    IF StartsWith(l2, kVideo) THEN [f EXCEPT !.sect2 = "PLAYLIST_VIDEO"]
    ELSE IF StartsWith(l2, kAudio) THEN [f EXCEPT !.sect2 = "PLAYLIST_AUDIO"]
    ELSE IF StartsWith(l2, kSubtitles) THEN [f EXCEPT !.sect2 = "PLAYLIST_SUBTITLES"]
    ELSE f

\* paste_parser.py:163-174
PlaylistVideoRow(f, l) ==
    LET track_name == playlist_report_format_video_track_name(l)
    IN  IF track_name # NoName THEN AppendTrack(f, "video", track_name) ELSE f

\* paste_parser.py:176-200
PlaylistAudioRow(f, l) ==
    LET track_name == playlist_report_format_audio_track_name(l)
        f1 == IF track_name # NoName THEN AppendTrack(f, "audio", track_name) ELSE f
    IN  IF Contains(Lower(l), kAc3Embedded)
        THEN LET audio_parts == ReSplitIgnoreCase(kAc3Pattern, l)
             IN  IF Len(audio_parts) < 2
                 THEN Raise(f1, "IndexError")   \* audio_parts[1]
                 ELSE AppendTrack(f1, "audio", format_track_name(
                          kCompat \o RStripCh(Strip(Join(
                              AllButLast(Split(audio_parts[2], <<"/">>)),
                              <<"/">>)), ")")))
        ELSE f1

\* the mutant of C5: a row is taken by its heading alone, separator or not
PlaylistReportLineNoInner(f, l, l2) ==
    LET f1 == PlaylistHeading(f, l2)
    IN  IF StartsWith(l2, kDashes)
        THEN IF f1.sect2 = "PLAYLIST_VIDEO"
             THEN [f1 EXCEPT !.sect3 = "PLAYLIST_INNER_VIDEO"]
             ELSE IF f1.sect2 = "PLAYLIST_AUDIO"
             THEN [f1 EXCEPT !.sect3 = "PLAYLIST_INNER_AUDIO"]
             ELSE f1
        ELSE IF StartsWith(l, <<"-">>)
        THEN f1
        ELSE IF f1.sect2 = "PLAYLIST_VIDEO"
        THEN PlaylistVideoRow(f1, l)
        ELSE IF f1.sect2 = "PLAYLIST_AUDIO"
        THEN PlaylistAudioRow(f1, l)
        ELSE f1

\* the mutant of C17: a row that starts with a minus sign is a row like
\* any other
PlaylistReportLineKeepsMinus(f, l, l2) ==
    LET f1 == PlaylistHeading(f, l2)
    IN  IF StartsWith(l2, kDashes)
        THEN IF f1.sect2 = "PLAYLIST_VIDEO"
             THEN [f1 EXCEPT !.sect3 = "PLAYLIST_INNER_VIDEO"]
             ELSE IF f1.sect2 = "PLAYLIST_AUDIO"
             THEN [f1 EXCEPT !.sect3 = "PLAYLIST_INNER_AUDIO"]
             ELSE f1
        ELSE IF f1.sect2 = "PLAYLIST_VIDEO" /\ f1.sect3 = "PLAYLIST_INNER_VIDEO"
        THEN PlaylistVideoRow(f1, l)
        ELSE IF f1.sect2 = "PLAYLIST_AUDIO" /\ f1.sect3 = "PLAYLIST_INNER_AUDIO"
        THEN PlaylistAudioRow(f1, l)
        ELSE f1

PlaylistReportLine(f, l, l2) ==
    LET f1 == PlaylistHeading(f, l2)
    IN  IF StartsWith(l2, kDashes)
        THEN IF f1.sect2 = "PLAYLIST_VIDEO"
             THEN [f1 EXCEPT !.sect3 = "PLAYLIST_INNER_VIDEO"]
             ELSE IF f1.sect2 = "PLAYLIST_AUDIO"
             THEN [f1 EXCEPT !.sect3 = "PLAYLIST_INNER_AUDIO"]
             ELSE f1
        ELSE IF StartsWith(l, <<"-">>)
        THEN f1      \* skip tracks that start with minus sign
        ELSE IF f1.sect2 = "PLAYLIST_VIDEO" /\ f1.sect3 = "PLAYLIST_INNER_VIDEO"
        THEN PlaylistVideoRow(f1, l)
        ELSE IF f1.sect2 = "PLAYLIST_AUDIO" /\ f1.sect3 = "PLAYLIST_INNER_AUDIO"
        THEN PlaylistAudioRow(f1, l)
        ELSE f1

(***************************************************************************)
(* paste_parser.py:202-209: a line of the MediaInfo, a line of an eac3to   *)
(* log.                                                                    *)
(***************************************************************************)
\* the mutant of C16: a line of the MediaInfo that is no heading ends it
MediaInfoLineEnds(f, l) ==
    [f EXCEPT !.mediainfo = Append(@, l),
              !.sect = IF StartsWith(Lower(Strip(l)), kGeneral) THEN @ ELSE None]

MediaInfoLine(f, l) == [f EXCEPT !.mediainfo = Append(@, l)]

\* the mutant of C4: "Done." is a line of the log like any other
Eac3toLineKeepsDone(f, l) ==
    [f EXCEPT !.eac3to[f.eac3to_index + 1] = Append(@, l)]

\* the mutant of C3: every line of a log goes to the first log
Eac3toLineFirstLog(f, l) ==
    IF StartsWith(l, kDone)
    THEN [f EXCEPT !.sect = None]
    ELSE [f EXCEPT !.eac3to[1] = Append(@, l)]

Eac3toLine(f, l) ==
    IF StartsWith(l, kDone)
    THEN [f EXCEPT !.sect = None]
    ELSE [f EXCEPT !.eac3to[f.eac3to_index + 1] = Append(@, l)]

\* paste_parser.py:111-209: the line goes to the current section
Dispatch(f, l, l2) ==
    IF f.sect = "QUICK_SUMMARY" THEN QuickSummaryLine(f, l, l2)
    ELSE IF f.sect = "PLAYLIST_REPORT" THEN PlaylistReportLine(f, l, l2)
    ELSE IF f.sect = "MEDIAINFO" THEN MediaInfoLine(f, l)
    ELSE IF f.sect = "EAC3TO_LOG" THEN Eac3toLine(f, l)
    ELSE f

(***************************************************************************)
(* paste_parser.py:66-209: one iteration of `for l in lines`.              *)
(***************************************************************************)
\* the mutant of C7: a skipped line is not tested for the cutoff
LoopBodySkipFirst(f, l) ==
    IF Strip(l) = <<>>
    THEN [f EXCEPT !.ignore_next_lines = FALSE]
    ELSE IF f.ignore_next_lines
    THEN f
    ELSE IF isIgnoreAfterLine(l)
    THEN [f EXCEPT !.pc = "break"]
    ELSE LET f1 == IF StartsIgnoredBlock(l)
                   THEN [f EXCEPT !.ignore_next_lines = TRUE] ELSE f
             l2 == Lower(Strip(l))
         IN  Dispatch(DetermineSection(f1, l2), l, l2)

\* the mutant of C15: the line that starts the skipping is skipped itself
LoopBodyDropsTrigger(f, l) ==
    IF isIgnoreAfterLine(l)
    THEN [f EXCEPT !.pc = "break"]
    ELSE IF Strip(l) = <<>>
    THEN [f EXCEPT !.ignore_next_lines = FALSE]
    ELSE IF f.ignore_next_lines
    THEN f
    ELSE IF StartsIgnoredBlock(l)
    THEN [f EXCEPT !.ignore_next_lines = TRUE]
    ELSE LET l2 == Lower(Strip(l))
         IN  Dispatch(DetermineSection(f, l2), l, l2)

LoopBody(f, l) ==
    IF isIgnoreAfterLine(l)
    THEN [f EXCEPT !.pc = "break"]
    ELSE IF Strip(l) = <<>>
    THEN [f EXCEPT !.ignore_next_lines = FALSE]
    ELSE IF f.ignore_next_lines
    THEN f
    ELSE LET f1 == IF StartsIgnoredBlock(l)
                   THEN [f EXCEPT !.ignore_next_lines = TRUE] ELSE f
             l2 == Lower(Strip(l))
         IN  Dispatch(DetermineSection(f1, l2), l, l2)

(***************************************************************************)
(* CodecsParser (src/vdator/codecs_parser.py).  A codec name is a string   *)
(* and a table is a function of its keys; a dict is looked up by equality  *)
(* of strings, which tells "AC3" from "ac3".  Python's True and False are  *)
(* the strings "True" and "False", for a method that returns either False  *)
(* or a string.                                                            *)
(***************************************************************************)
PyTrue == "True"
PyFalse == "False"

\* codecs_parser.py:9-15
video_codecs ==
    [k \in {"h264/AVC", "h265/HEVC", "MPEG1", "MPEG2", "VC-1"} |->
        CASE k = "h264/AVC" -> ".h264"
          [] k = "h265/HEVC" -> ".h265"
          [] k = "MPEG1" -> ".m1v"
          [] k = "MPEG2" -> ".m2v"
          [] k = "VC-1" -> ".vc1"]

\* codecs_parser.py:17-25
audio_codecs ==
    [k \in {"AC3", "DTS Master Audio", "DTS", "E-AC3", "FLAC Audio", "RAW/PCM",
            "TrueHD/AC3"} |->
        CASE k = "AC3" -> ".ac3"
          [] k = "DTS Master Audio" -> ".dtsma"
          [] k = "DTS" -> ".dts"
          [] k = "E-AC3" -> "eac3"
          [] k = "FLAC Audio" -> ".flac"
          [] k = "RAW/PCM" -> ".pcm"
          [] k = "TrueHD/AC3" -> ".thd+ac3"]

\* codecs_parser.py:28-34
audio_codec_title_names ==
    [k \in {"DTS Audio", "DTS-HD Master Audio", "Dolby Digital Audio",
            "Dolby TrueHD Audio", "FLAC Audio"} |->
        CASE k = "DTS Audio" -> "DTS"
          [] k = "DTS-HD Master Audio" -> "DTS-HD.MA"
          [] k = "Dolby Digital Audio" -> "DD"
          [] k = "Dolby TrueHD Audio" -> "TrueHD"
          [] k = "FLAC Audio" -> "FLAC"]

\* codecs_parser.py:36-39
sub_codecs ==
    [k \in {"Subtitle (PGS)", "Subtitle (DVD)"} |-> ".sup"]

\* codecs_parser.py:41-43
chapter_codecs ==
    [k \in {"Chapters"} |-> ".txt"]

\* {**a, **b}: the keys of both, b's value for a key of both
Merged(a, b) ==
    [k \in DOMAIN a \cup DOMAIN b |-> IF k \in DOMAIN b THEN b[k] ELSE a[k]]

\* the mutant of C13: the chapter table is left out of the merged table
codec_ext_without_chapters ==
    Merged(Merged(video_codecs, audio_codecs), sub_codecs)

\* codecs_parser.py:46
codec_ext ==
    Merged(Merged(Merged(video_codecs, audio_codecs), sub_codecs), chapter_codecs)

\* codecs_parser.py:48-114
is_video(codec) == IF codec \in DOMAIN video_codecs THEN PyTrue ELSE PyFalse
is_audio(codec) == IF codec \in DOMAIN audio_codecs THEN PyTrue ELSE PyFalse
is_sub(codec) == IF codec \in DOMAIN sub_codecs THEN PyTrue ELSE PyFalse
is_chapter(codec) == IF codec \in DOMAIN chapter_codecs THEN PyTrue ELSE PyFalse

\* codecs_parser.py:116-131
get_codec_ext(codec) ==
    IF codec \notin DOMAIN codec_ext THEN PyFalse ELSE codec_ext[codec]

\* codecs_parser.py:133-148
get_audio_codec_title_name(codec) ==
    IF codec \notin DOMAIN audio_codec_title_names THEN PyFalse
    ELSE audio_codec_title_names[codec]

\* the methods of a CodecsParser
Methods ==
    {"is_video", "is_audio", "is_sub", "is_chapter", "get_codec_ext",
     "get_audio_codec_title_name"}
\* a method that was not called yet has no answer
NotCalled == "not called"
\* no codec was looked up
NoLookup == [codec |-> "", answer |-> [m \in Methods |-> NotCalled]]

\* The names that are looked up: the keys of the five tables, the same
\* names in another letter case or with a blank more, extensions, parts of
\* names, and the empty name.
CodecNames ==
    DOMAIN video_codecs \cup DOMAIN audio_codecs \cup DOMAIN sub_codecs \cup
    DOMAIN chapter_codecs \cup DOMAIN audio_codec_title_names \cup
    {"", "ac3", "dts", "Dts", "e-ac3", "H264/AVC", "h264/avc", "mpeg2", "VC-1 ",
     " AC3", "chapters", "CHAPTERS", "subtitle (pgs)", "Subtitle", "AVC", "PCM",
     ".ac3", ".sup", "TrueHD", "MPEG4"}

(***************************************************************************)
(* The environments and the texts of the model.                            *)
(***************************************************************************)
Environment(after, method, prefixes) ==
    [IGNORE_AFTER_LINE |-> after,
     IGNORE_AFTER_LINE_METHOD |-> method,
     IGNORE_UNTIL_BLANK_LINE_PREFIXES |-> prefixes]

\* no variable is set
EnvNotSet == Environment(NotSet, NotSet, NotSet)
\* the two mandatory variables are set and empty
EnvOff == Environment(<<>>, <<>>, NotSet)
\* IGNORE_AFTER_LINE=" END", IGNORE_AFTER_LINE_METHOD="contains", prefixes "foo"
EnvContains == Environment(EEnd, kContains, EFoo)
\* IGNORE_AFTER_LINE="END", IGNORE_AFTER_LINE_METHOD="equals", prefixes "foo,"
EnvEquals == Environment(LEnd, kEquals, EFooComma)
\* no cutoff, prefixes ",foo"
EnvCommaFoo == Environment(<<>>, <<>>, ECommaFoo)
\* IGNORE_AFTER_LINE="END", IGNORE_AFTER_LINE_METHOD="contains", prefixes "Foo"
EnvUpper == Environment(LEnd, kContains, EFooUpper)

\* The lines of the texts of a scenario: eac3to logs among other sections,
\* quick summaries, playlist reports (with and without rows that start with
\* a minus sign), a MediaInfo among other sections, and texts with the lines
\* the truncation settings are about.
LogLines == {LEac1, LEac2, LDone, LPlain, LQuick, LGeneral}
QuickLines == {LQuick, LVideo, LAudioCompat, LAudioBare, LAudioRemark, LSubtitle}
PlaylistLines == {LPlaylist, LHeadVideo, LHeadAudio, LHeadSubtitles, LDashes,
                  LRowCompat}
PlaylistMinusLines == {LPlaylist, LHeadVideo, LHeadAudio, LDashes, LMinus, LRow}
MediaLines == {LGeneral, LPlain, LQuick, LVideo, LEac1, LBlank}
ContainsLines == {LSkip, LHasEnd, LBlank, LQuick, LVideo, LGeneral}
EqualsLines == {LSkip, LEnd, LHasEnd, LBlank, LQuick, LVideo}
SkipLines == {LSkip, LBlank, LQuick, LVideo, LGeneral}
\* the headings of both disc reports, with a MediaInfo between them
ReportLines == {LQuick, LPlaylist, LGeneral, LPlain}

Scenarios ==
    {<<EnvOff, LogLines>>, <<EnvOff, QuickLines>>, <<EnvOff, PlaylistLines>>,
     <<EnvOff, PlaylistMinusLines>>, <<EnvOff, MediaLines>>,
     <<EnvOff, ReportLines>>,
     <<EnvContains, ContainsLines>>, <<EnvEquals, EqualsLines>>,
     <<EnvCommaFoo, SkipLines>>, <<EnvUpper, SkipLines>>,
     <<EnvNotSet, {}>>}

Calls == 1..2

(***************************************************************************)
(* The actions.                                                            *)
(***************************************************************************)
Init ==
    /\ \E sc \in Scenarios : env = sc[1] /\ alphabet = sc[2]
    /\ mod = [status |-> "unloaded",
              IGNORE_AFTER_LINE |-> NotSet,
              IGNORE_AFTER_LINE_METHOD |-> NotSet,
              IGNORE_UNTIL_BLANK_LINE_PREFIXES |-> <<>>]
    /\ frame = [c \in Calls |-> NoFrame]
    /\ lookup = NoLookup

\* import paste_parser (paste_parser.py:1-14)
Import ==
    /\ mod.status = "unloaded"
    /\ mod' = LoadedModule(env)
    /\ UNCHANGED <<env, alphabet, frame, lookup>>

\* paste_parser.parse(text) is called (api.py:60) with a text not yet read
ParseStart(c) ==
    /\ mod.status = "loaded"
    /\ frame[c].pc = "idle"
    /\ frame' = [frame EXCEPT ![c] = EnterParse(<<>>, FALSE)]
    /\ UNCHANGED <<env, alphabet, mod, lookup>>

\* the lines the next iteration of the loop can find
NextLines(f) ==
    IF f.i < Len(f.text) THEN {f.text[f.i + 1]}
    ELSE IF ~f.known /\ Len(f.text) < MaxLines THEN alphabet
    ELSE {}

\* the mutant of C11: the section is an attribute of the PasteParser, which
\* the iterations of both calls read and write
StepShared(c) ==
    /\ frame[c].pc = "loop"
    /\ \E l \in NextLines(frame[c]) :
           frame' = [frame EXCEPT ![c] =
               LoopBody([frame[c] EXCEPT
                            !.text = IF frame[c].i < Len(@) THEN @ ELSE Append(@, l),
                            !.i = @ + 1,
                            !.sect = IF frame[3 - c].pc = "loop"
                                     THEN frame[3 - c].sect ELSE @], l)]
    /\ UNCHANGED <<env, alphabet, mod, lookup>>

\* one iteration of the loop of call c
Step(c) ==
    /\ frame[c].pc = "loop"
    /\ \E l \in NextLines(frame[c]) :
           frame' = [frame EXCEPT ![c] =
               LoopBody([frame[c] EXCEPT
                            !.text = IF frame[c].i < Len(@) THEN @ ELSE Append(@, l),
                            !.i = @ + 1], l)]
    /\ UNCHANGED <<env, alphabet, mod, lookup>>

\* return bdinfo, mediainfo, eac3to (paste_parser.py:211)
Returned(f) ==
    [f EXCEPT !.pc = "returned",
              !.ret = [bdinfo |-> f.bdinfo,
                       mediainfo |-> f.mediainfo,
                       eac3to |-> f.eac3to]]

\* the return of call c, after the last line or after the break
Return(c) ==
    /\ \/ frame[c].pc = "break"
       \/ frame[c].pc = "loop" /\ (frame[c].known => frame[c].i = Len(frame[c].text))
    /\ frame' = [frame EXCEPT ![c] = Returned(frame[c])]
    /\ UNCHANGED <<env, alphabet, mod, lookup>>

\* the same PasteParser parses the text of call 1 again, as call 2
ParseAgain ==
    /\ frame[1].pc \in {"returned", "raised"}
    /\ frame[2].pc = "idle"
    /\ frame' = [frame EXCEPT ![2] = EnterParse(frame[1].text, TRUE)]
    /\ UNCHANGED <<env, alphabet, mod, lookup>>

Next == Import \/ ParseStart(1) \/ Step(1) \/ Return(1)

Spec == Init /\ [][Next]_vars

\* one text, parsed twice
NextTwice ==
    \/ Import
    \/ ParseStart(1)
    \/ Step(1) /\ Len(frame'[1].text) <= MaxLinesTwice
    \/ Return(1)
    \/ ParseAgain
    \/ Step(2)
    \/ Return(2)

SpecTwice == Init /\ [][NextTwice]_vars

\* two calls of the one PasteParser, each with a text of its own, their
\* iterations interleaved in any order
NextBoth ==
    \/ Import
    \/ ParseStart(1)
    \/ ParseStart(2)
    \/ Len(frame[1].text) + Len(frame[2].text) < MaxLinesBoth /\ Step(1)
    \/ Len(frame[1].text) + Len(frame[2].text) < MaxLinesBoth /\ Step(2)
    \/ Return(1)
    \/ Return(2)

SpecBoth == Init /\ [][NextBoth]_vars

\* a codec name is handed to the CodecsParser; the paste parser is not used
InitCodecs ==
    /\ env = EnvOff
    /\ alphabet = {}
    /\ mod = [status |-> "unloaded",
              IGNORE_AFTER_LINE |-> NotSet,
              IGNORE_AFTER_LINE_METHOD |-> NotSet,
              IGNORE_UNTIL_BLANK_LINE_PREFIXES |-> <<>>]
    /\ frame = [c \in Calls |-> NoFrame]
    /\ \E codec \in CodecNames : lookup = [NoLookup EXCEPT !.codec = codec]

\* a method of the CodecsParser is called on the name and answers
Answer(method, value) ==
    /\ lookup.answer[method] = NotCalled
    /\ lookup' = [lookup EXCEPT !.answer[method] = value]
    /\ UNCHANGED <<env, alphabet, mod, frame>>

IsVideo == Answer("is_video", is_video(lookup.codec))
IsAudio == Answer("is_audio", is_audio(lookup.codec))
IsSub == Answer("is_sub", is_sub(lookup.codec))
IsChapter == Answer("is_chapter", is_chapter(lookup.codec))
GetCodecExt == Answer("get_codec_ext", get_codec_ext(lookup.codec))
GetAudioCodecTitleName ==
    Answer("get_audio_codec_title_name", get_audio_codec_title_name(lookup.codec))

NextCodecs ==
    IsVideo \/ IsAudio \/ IsSub \/ IsChapter \/ GetCodecExt \/ GetAudioCodecTitleName

SpecCodecs == InitCodecs /\ [][NextCodecs]_vars

(***************************************************************************)
(* parse(text) as a function of the text: the iterations of the loop one   *)
(* after the other, up to the break, the exception or the last line, and   *)
(* then the return.                                                        *)
(***************************************************************************)
RECURSIVE Iterate(_, _)
Iterate(f, lines) ==
    IF f.pc # "loop" \/ lines = <<>> THEN f
    ELSE Iterate(LoopBody([f EXCEPT !.i = @ + 1], Head(lines)), Tail(lines))

parse(text) ==
    LET f == Iterate(EnterParse(text, TRUE), text)
    IN  IF f.pc = "raised" THEN f.ret ELSE Returned(f).ret

(***************************************************************************)
(* The claims.                                                             *)
(***************************************************************************)
\* call c runs one iteration of its loop in this step
Stepped(c) == frame[c].pc = "loop" /\ frame'[c].i = frame[c].i + 1
\* the line of that iteration
Line(c) == frame'[c].text[frame'[c].i]
\* the line is not blank
NonBlank(l) == \E k \in 1..Len(l) : ~IsSpace(l[k])
\* the line starts, trimmed and in lower case, with the literal
Begins(l, literal) == StartsWith(Lower(Strip(l)), literal)
\* s is a prefix of t
IsPrefix(s, t) == Len(s) <= Len(t) /\ SubSeq(t, 1, Len(s)) = s

\* C1: parse never raises, whatever the lines of the text: no call ever
\* ends with an exception.
C1_NeverRaises == \A c \in Calls : frame[c].pc # "raised"

\* C2: once the MediaInfo has lines and the section is no longer MEDIAINFO,
\* no iteration of the loop changes mediainfo, whatever its line.
C2_MediaInfoOpensOnce ==
    [][\A c \in Calls :
        (Stepped(c) /\ frame[c].mediainfo # <<>> /\ frame[c].sect # "MEDIAINFO")
            => frame'[c].mediainfo = frame[c].mediainfo]_vars

\* C2, witness: a second "General" line has been read after the MediaInfo
\* was closed by another section, and the section is not MEDIAINFO again.
C2_Witness ==
    \E c \in Calls :
        /\ frame[c].pc = "loop"
        /\ frame[c].i >= 3
        /\ Begins(frame[c].text[frame[c].i], kGeneral)
        /\ Begins(frame[c].text[frame[c].i - 1], kQuickSummary)
        /\ frame[c].mediainfo # <<>>
        /\ frame[c].sect = None

\* the configured hard cutoff matches the line
CutoffMatches(l) ==
    \/ mod.IGNORE_AFTER_LINE_METHOD = kEquals /\ l = mod.IGNORE_AFTER_LINE
    \/ /\ mod.IGNORE_AFTER_LINE_METHOD = kContains
       /\ \E k \in 1..(Len(l) + 1) : OccursAt(l, mod.IGNORE_AFTER_LINE, k)
\* call c classifies the line of this step: the line is not blank, not
\* behind the hard cutoff and not skipped
Read(c) ==
    /\ Stepped(c)
    /\ NonBlank(Line(c))
    /\ ~CutoffMatches(Line(c))
    /\ ~frame[c].ignore_next_lines
\* the line starts one of the four sections
IsHeader(l) == Begins(l, kEac3to)
SectionStart(l) ==
    \/ Begins(l, kQuickSummary)
    \/ Begins(l, kPlaylistReport)
    \/ Begins(l, kEac3to)
    \/ Begins(l, kGeneral)
\* the logs, with line l appended to the last of them
LastLogPlus(logs, l) == [logs EXCEPT ![Len(logs)] = Append(@, l)]
\* a header has been read and no line since begins "Done."
LogOpen(f) ==
    /\ f.eac3to # <<>>
    /\ \E h \in 1..f.i :
           /\ IsHeader(f.text[h])
           /\ \A j \in (h + 1)..f.i : ~StartsWith(f.text[j], kDone)

\* C3, as claimed: between an "eac3to v" header and the next "Done." line,
\* every line read that is not a header itself is appended to that log,
\* whatever else it looks like.
C3_Original ==
    [][\A c \in Calls :
        (Read(c) /\ LogOpen(frame[c])
                 /\ ~StartsWith(Line(c), kDone) /\ ~IsHeader(Line(c)))
            => frame'[c].eac3to = LastLogPlus(frame[c].eac3to, Line(c))]_vars

\* C3, amended: a log is open while the section is EAC3TO_LOG.  A header
\* opens a new log, whose first line it is.  A line read while a log is open
\* is appended to that log unless it begins "Done." or starts a section;
\* "Done." sets the section to None; and a line read while no log is open,
\* or one that starts another section, changes no log.
C3_LogClosedByDoneOrSection ==
    [][\A c \in Calls : Read(c) =>
        LET f == frame[c]
            g == frame'[c]
            l == Line(c)
        IN  IF IsHeader(l)
            THEN g.eac3to = Append(f.eac3to, <<l>>) /\ g.sect = "EAC3TO_LOG"
            ELSE IF SectionStart(l) \/ f.sect # "EAC3TO_LOG"
            THEN g.eac3to = f.eac3to /\ g.sect # "EAC3TO_LOG"
            ELSE IF StartsWith(l, kDone)
            THEN g.eac3to = f.eac3to /\ g.sect = None
            ELSE g.eac3to = LastLogPlus(f.eac3to, l) /\ g.sect = "EAC3TO_LOG"]_vars

\* C3, witness: a header, a line of its log, and then a "quick summary"
\* line, which is not in the log.
C3_Witness ==
    \E c \in Calls :
        /\ frame[c].pc = "loop"
        /\ frame[c].i = 3
        /\ frame[c].text = <<LEac1, LPlain, LQuick>>
        /\ frame[c].eac3to = <<<<LEac1, LPlain>>>>
        /\ frame[c].sect = "QUICK_SUMMARY"

\* the positions of the header lines and of the "Done." lines of a text
Headers(text) == {j \in 1..Len(text) : IsHeader(text[j])}
Dones(text) == {j \in 1..Len(text) : StartsWith(text[j], kDone)}
\* the least and the greatest of a set of positions that is not empty
Least(S) == CHOOSE j \in S : \A k \in S : j <= k
Greatest(S) == CHOOSE j \in S : \A k \in S : k <= j
\* the first "Done." line after position h, 0 when there is none
DoneAfter(text, h) ==
    IF \E d \in Dones(text) : d > h
    THEN Least({d \in Dones(text) : d > h})
    ELSE 0
\* the text has two headers, each followed by a "Done." line of its own
TwoClosedLogs(text) ==
    /\ Cardinality(Headers(text)) = 2
    /\ LET h1 == Least(Headers(text))
           h2 == Greatest(Headers(text))
       IN  /\ DoneAfter(text, h1) # 0
           /\ DoneAfter(text, h1) < h2
           /\ DoneAfter(text, h2) # 0
\* the line is one of the lines between positions h and d of the text
Interior(text, h, d, line) == \E j \in (h + 1)..(d - 1) : text[j] = line
\* every line of the log from position m on is one between header h and
\* the "Done." line after it
OnlyInterior(text, h, log, m) ==
    \A n \in m..Len(log) : Interior(text, h, DoneAfter(text, h), log[n])
\* no cutoff method and no skip prefix is configured
TruncationOff ==
    /\ mod.IGNORE_AFTER_LINE_METHOD \notin {kEquals, kContains}
    /\ \A k \in 1..Len(mod.IGNORE_UNTIL_BLANK_LINE_PREFIXES) :
           mod.IGNORE_UNTIL_BLANK_LINE_PREFIXES[k] = <<>>

\* C4, as claimed: for a text with two headers, each followed by its own
\* "Done." line, parse returns two logs, and every line of log k is one of
\* the lines between header k and its "Done." line.
C4_Original ==
    \A c \in Calls :
        (frame[c].pc = "returned" /\ TwoClosedLogs(frame[c].text))
            => LET logs == frame[c].ret.eac3to
                   text == frame[c].text
               IN  /\ Len(logs) = 2
                   /\ OnlyInterior(text, Least(Headers(text)), logs[1], 1)
                   /\ OnlyInterior(text, Greatest(Headers(text)), logs[2], 1)

\* C4, amended: with no truncation configured, parse returns two logs for
\* such a text; log k begins with header k, and every other line of it is
\* one of the lines between header k and its "Done." line.
C4_LogIsolation ==
    \A c \in Calls :
        (/\ frame[c].pc = "returned"
         /\ TruncationOff
         /\ TwoClosedLogs(frame[c].text))
            => LET logs == frame[c].ret.eac3to
                   text == frame[c].text
                   h1 == Least(Headers(text))
                   h2 == Greatest(Headers(text))
               IN  /\ Len(logs) = 2
                   /\ logs[1] # <<>> /\ logs[1][1] = text[h1]
                   /\ logs[2] # <<>> /\ logs[2][1] = text[h2]
                   /\ OnlyInterior(text, h1, logs[1], 2)
                   /\ OnlyInterior(text, h2, logs[2], 2)

\* C4, witness: two logs have been returned, each closed by its "Done."
\* line, the first with a line between its header and that line.
C4_Witness ==
    \E c \in Calls :
        /\ frame[c].pc = "returned"
        /\ frame[c].text = <<LEac1, LPlain, LDone, LEac2, LDone>>
        /\ frame[c].ret.eac3to = <<<<LEac1, LPlain>>, <<LEac2>>>>

\* C5: an iteration that leaves the section PLAYLIST_REPORT changes the
\* video list only with (sect2, sect3) = (PLAYLIST_VIDEO, PLAYLIST_INNER_VIDEO)
\* at that line, the audio list only with (PLAYLIST_AUDIO,
\* PLAYLIST_INNER_AUDIO), and never the subtitle list.
C5_PlaylistRowsNeedInner ==
    [][\A c \in Calls :
        (Stepped(c) /\ frame'[c].sect = "PLAYLIST_REPORT") =>
            LET f == frame[c]
                g == frame'[c]
            IN  /\ g.bdinfo.video # f.bdinfo.video
                     => /\ g.sect2 = "PLAYLIST_VIDEO"
                        /\ g.sect3 = "PLAYLIST_INNER_VIDEO"
                        /\ f.sect3 = "PLAYLIST_INNER_VIDEO"
                /\ g.bdinfo.audio # f.bdinfo.audio
                     => /\ g.sect2 = "PLAYLIST_AUDIO"
                        /\ g.sect3 = "PLAYLIST_INNER_AUDIO"
                        /\ f.sect3 = "PLAYLIST_INNER_AUDIO"
                /\ g.bdinfo.subtitle = f.bdinfo.subtitle]_vars

\* C5, witness: a playlist report in which the row before the separator was
\* not taken and the same row after the separator was.
C5_Witness ==
    \E c \in Calls :
        /\ frame[c].pc = "loop"
        /\ frame[c].text = <<LPlaylist, LHeadVideo, LRow, LDashes, LRow>>
        /\ frame[c].i = 5
        /\ Len(frame[c].bdinfo.video) = 1
        /\ frame[c].bdinfo.audio = <<>>

\* the audio descriptor the line of this step is taken for, <<>> when the
\* line is no accepted audio descriptor: the text after the colon of an
\* "audio:" line of the quick summary, a row of the audio table of the
\* playlist report
AudioDescriptor(c) ==
    LET g == frame'[c]
        l == Line(c)
    IN  IF g.sect = "QUICK_SUMMARY" /\ Begins(l, kAudio)
        THEN Strip(Split1(l, <<":">>)[2])
        ELSE IF /\ g.sect = "PLAYLIST_REPORT"
                /\ g.sect2 = "PLAYLIST_AUDIO"
                /\ frame[c].sect3 = "PLAYLIST_INNER_AUDIO"
                /\ ~StartsWith(l, <<"-">>)
        THEN l
        ELSE <<>>
\* name was formatted from text of the descriptor d that precedes the marker
FromBeforeMarker(name, d) ==
    /\ IsPrefix(name.of, d)
    /\ Len(name.of) < Find(Lower(d), kAc3Embedded)
\* name was formatted from the literal followed by text of the descriptor d
\* that comes after the marker
FromAfterMarker(name, d) ==
    /\ name.by = "format_track_name"
    /\ IsPrefix(kCompat, name.of)
    /\ LET rest == SubSeq(name.of, Len(kCompat) + 1, Len(name.of))
       IN  \E k \in (Find(Lower(d), kAc3Embedded) + Len(kAc3Embedded))..(Len(d) + 1) :
               OccursAt(d, rest, k)

\* C6: every accepted audio descriptor that holds "ac3 embedded" adds two
\* entries to the audio list: one formatted from the text before the
\* marker, then one formatted from the literal and the text after it.
C6_CompatSplit ==
    [][\A c \in Calls :
        (Read(c) /\ Contains(Lower(AudioDescriptor(c)), kAc3Embedded)) =>
            LET old == frame[c].bdinfo.audio
                new == frame'[c].bdinfo.audio
                d == AudioDescriptor(c)
            IN  /\ Len(new) = Len(old) + 2
                /\ IsPrefix(old, new)
                /\ FromBeforeMarker(new[Len(old) + 1], d)
                /\ FromAfterMarker(new[Len(old) + 2], d)]_vars

\* what the call returns from where it is
Result(f) == [bdinfo |-> f.bdinfo, mediainfo |-> f.mediainfo, eac3to |-> f.eac3to]
\* the positions, among the lines read, of the lines the cutoff matches
CutoffLines(f) == {k \in 1..f.i : CutoffMatches(f.text[k])}

\* C7: when the hard cutoff matches a line, the loop stops at the first
\* such line, in every section and also while lines are being skipped, and
\* parse returns what it returns for the lines before that line alone.
C7_HardTruncation ==
    \A c \in Calls :
        CutoffLines(frame[c]) # {} =>
            LET f == frame[c]
                k == Least(CutoffLines(f))
            IN  /\ f.i = k
                /\ f.pc \in {"break", "returned"}
                /\ Result(f) = parse(SubSeq(f.text, 1, k - 1))

\* C7, witness: the cutoff line came while lines were being skipped, in a
\* quick summary with one video track, and parse has returned.
C7_Witness ==
    \E c \in Calls :
        /\ frame[c].pc = "returned"
        /\ frame[c].text = <<LQuick, LVideo, LSkip, LHasEnd>>
        /\ frame[c].ignore_next_lines
        /\ Len(frame[c].ret.bdinfo.video) = 1
        /\ frame[c].ret.bdinfo.type = "BDInfoType.QUICK_SUMMARY"

\* the line starts, trimmed and in lower case, with a configured skip
\* prefix; an empty entry of the list is no prefix
Triggers(l) ==
    \E k \in 1..Len(mod.IGNORE_UNTIL_BLANK_LINE_PREFIXES) :
        /\ mod.IGNORE_UNTIL_BLANK_LINE_PREFIXES[k] # <<>>
        /\ Begins(l, mod.IGNORE_UNTIL_BLANK_LINE_PREFIXES[k])
\* after the first n lines of the text the lines are being skipped: since
\* the last blank line, a line that was not skipped itself started a skip
RECURSIVE Skipping(_, _)
Skipping(text, n) ==
    IF n = 0 THEN FALSE
    ELSE IF ~NonBlank(text[n]) THEN FALSE
    ELSE IF Skipping(text, n - 1) THEN TRUE
    ELSE Triggers(text[n])
\* the step changes neither the section state nor a result sequence
Frozen(f, g) ==
    /\ g.sect = f.sect /\ g.sect2 = f.sect2 /\ g.sect3 = f.sect3
    /\ g.bdinfo = f.bdinfo /\ g.mediainfo = f.mediainfo /\ g.eac3to = f.eac3to
    /\ g.eac3to_index = f.eac3to_index
    /\ g.did_first_mediainfo = f.did_first_mediainfo

\* C8: after a line that starts with a configured skip prefix, every line up
\* to the next blank line is dropped, whatever it is: it changes neither the
\* section state nor a result; the blank line changes nothing either and
\* ends the skip, so that the next line is read in the section state that
\* held when the skip began.
C8_SoftSkip ==
    [][\A c \in Calls :
        LET f == frame[c]
            g == frame'[c]
        IN  /\ (Stepped(c) /\ NonBlank(Line(c)) /\ Skipping(f.text, f.i))
                => Frozen(f, g)
            /\ (Stepped(c) /\ ~NonBlank(Line(c)) /\ ~CutoffMatches(Line(c)))
                => Frozen(f, g) /\ ~g.ignore_next_lines]_vars

\* s is a subsequence of t: the elements of s, in their order, among those of t
RECURSIVE IsSubseq(_, _)
IsSubseq(s, t) ==
    IF s = <<>> THEN TRUE
    ELSE IF t = <<>> THEN FALSE
    ELSE IF Head(s) = Head(t) THEN IsSubseq(Tail(s), Tail(t))
    ELSE IsSubseq(s, Tail(t))
\* new is old, or old with one more element at its end
GrowsByAtMostOne(old, new) ==
    IsPrefix(old, new) /\ Len(new) <= Len(old) + 1
\* the track name is the second entry of a compatibility split
IsCompat(name) == IsPrefix(kCompat, name.of)
\* an iteration with line l only adds at the end of each sequence: at most
\* one video and one subtitle entry, at most two audio entries (then the
\* primary one and after it the compatibility one), at most the line itself
\* to mediainfo and to the last log, which may be a new one
AddsAtTheEnd(f, g, l) ==
    /\ GrowsByAtMostOne(f.bdinfo.video, g.bdinfo.video)
    /\ GrowsByAtMostOne(f.bdinfo.subtitle, g.bdinfo.subtitle)
    /\ IsPrefix(f.bdinfo.audio, g.bdinfo.audio)
    /\ Len(g.bdinfo.audio) <= Len(f.bdinfo.audio) + 2
    /\ Len(g.bdinfo.audio) = Len(f.bdinfo.audio) + 2
         => /\ ~IsCompat(g.bdinfo.audio[Len(f.bdinfo.audio) + 1])
            /\ IsCompat(g.bdinfo.audio[Len(f.bdinfo.audio) + 2])
    /\ g.mediainfo \in {f.mediainfo, Append(f.mediainfo, l)}
    /\ Len(g.eac3to) \in {Len(f.eac3to), Len(f.eac3to) + 1}
    /\ \A k \in 1..(Len(g.eac3to) - 1) :
           k <= Len(f.eac3to) /\ g.eac3to[k] = f.eac3to[k]
    /\ g.eac3to # <<>> =>
           LET n == Len(g.eac3to)
               old == IF n > Len(f.eac3to) THEN <<>> ELSE f.eac3to[n]
           IN  g.eac3to[n] \in {old, Append(old, l)}

\* C9: mediainfo and every log are subsequences of the lines read; every
\* iteration adds its entries at the end of the sequences, the two entries
\* of a compatibility split next to each other and the primary one first;
\* a log is added after the logs of the earlier headers; and the return
\* hands the sequences over as they are.
C9_OrderPreserved ==
    /\ [](\A c \in Calls :
             /\ IsSubseq(frame[c].mediainfo, SubSeq(frame[c].text, 1, frame[c].i))
             /\ \A k \in 1..Len(frame[c].eac3to) :
                    IsSubseq(frame[c].eac3to[k], SubSeq(frame[c].text, 1, frame[c].i)))
    /\ [][\A c \in Calls :
            /\ Stepped(c) => AddsAtTheEnd(frame[c], frame'[c], Line(c))
            /\ (frame[c].pc # "returned" /\ frame'[c].pc = "returned")
                 => frame'[c].ret = Result(frame[c])]_vars

\* C9, witness: a quick summary returned three audio entries, one of the
\* first audio line and then the two of the compatibility split.
C9_Witness ==
    \E c \in Calls :
        /\ frame[c].pc = "returned"
        /\ frame[c].text = <<LQuick, LAudioRemark, LAudioCompat, LVideo>>
        /\ Len(frame[c].ret.bdinfo.audio) = 3
        /\ ~IsCompat(frame[c].ret.bdinfo.audio[2])
        /\ IsCompat(frame[c].ret.bdinfo.audio[3])
        /\ Len(frame[c].ret.bdinfo.video) = 1

\* the locals of a call, as the loop sees them
Locals(f) == [n \in DOMAIN FreshLocals |-> f[n]]

\* C10: the second call of parse on the text of the first call starts from
\* fresh locals, whatever the first call left behind, and ends as the first
\* call did: it returns the same result or raises the same exception.
C10_Idempotent ==
    /\ (frame[2].pc = "loop" /\ frame[2].i = 0) => Locals(frame[2]) = FreshLocals
    /\ frame[2].pc \in {"returned", "raised", "break"}
         => /\ frame[1].pc \in {"returned", "raised"}
            /\ frame[2].text = frame[1].text
            /\ frame[2].pc # "break" => frame[2].pc = frame[1].pc
            /\ frame[2].pc # "break" => frame[2].ret = frame[1].ret

\* C10, witness: the second call has returned, after a first call that left
\* a section, the first-MediaInfo flag, a log and MediaInfo lines behind.
C10_Witness ==
    /\ frame[2].pc = "returned"
    /\ frame[1].did_first_mediainfo
    /\ frame[1].sect # None
    /\ frame[1].eac3to_index >= 0
    /\ frame[1].mediainfo # <<>>
    /\ frame[2].ret.mediainfo # <<>>
    /\ frame[2].ret.eac3to # <<>>

\* where a call is when it runs alone on the lines it has read
Alone(text) == Iterate(EnterParse(text, TRUE), text)

\* C11: however the iterations of two calls are interleaved, each call has
\* at every moment the locals it has when it reads its lines alone, and it
\* returns or raises what parse returns or raises on its text alone.
C11_Interleaved ==
    \A c \in Calls :
        frame[c].pc # "idle" =>
            LET f == frame[c]
                a == Alone(f.text)
            IN  /\ Locals(f) = Locals(a)
                /\ f.pc # "returned" => f.pc = a.pc
                /\ f.pc = "raised" => f.ret = a.ret
                /\ f.pc = "returned" => a.pc # "raised" /\ f.ret = Result(a)

\* C11, witness: both calls are in their loops; call 1 has opened the
\* MediaInfo with its line and call 2 has read a line that belongs to no
\* section of its own text.
C11_Witness ==
    /\ frame[1].pc = "loop" /\ frame[2].pc = "loop"
    /\ frame[1].text = <<LGeneral>> /\ frame[1].i = 1
    /\ frame[2].text = <<LPlain>> /\ frame[2].i = 1
    /\ frame[1].sect = "MEDIAINFO"
    /\ frame[1].mediainfo = <<LGeneral>>
    /\ frame[2].sect = None
    /\ frame[2].mediainfo = <<>>

\* a variable of the environment is not set, or set to an empty value
Unset(value) == value = NotSet \/ Strip(value) = <<>>
\* no truncation is configured
AbsentConfiguration ==
    /\ Unset(env.IGNORE_AFTER_LINE)
    /\ Unset(env.IGNORE_AFTER_LINE_METHOD)
    /\ Unset(env.IGNORE_UNTIL_BLANK_LINE_PREFIXES)

\* C12: when no truncation is configured the parser is usable (the import
\* of the module does not fail), no call ever stops at a cutoff line and no
\* call ever sets the soft-skip flag.
C12_AbsentDisables ==
    AbsentConfiguration =>
        /\ mod.status # "AttributeError"
        /\ \A c \in Calls : frame[c].pc # "break" /\ ~frame[c].ignore_next_lines

\* the four methods that tell the category of a codec, with their tables
Kinds == {"is_video", "is_audio", "is_sub", "is_chapter"}
TableOf(kind) ==
    CASE kind = "is_video" -> video_codecs
      [] kind = "is_audio" -> audio_codecs
      [] kind = "is_sub" -> sub_codecs
      [] kind = "is_chapter" -> chapter_codecs
\* the methods that answered True
Trues == {kind \in Kinds : lookup.answer[kind] = PyTrue}
\* the four methods and get_codec_ext have answered
AllAnswered == \A m \in Kinds \cup {"get_codec_ext"} : lookup.answer[m] # NotCalled

\* C13: on every name at most one of is_video, is_audio, is_sub and
\* is_chapter answers True; get_codec_ext answers the extension the table
\* of that category has for the name when one of them does, and False when
\* none does.
C13_CodecLookup ==
    /\ Cardinality(Trues) <= 1
    /\ AllAnswered =>
           IF Trues = {}
           THEN lookup.answer["get_codec_ext"] = PyFalse
           ELSE \A kind \in Trues :
                    /\ lookup.codec \in DOMAIN TableOf(kind)
                    /\ lookup.answer["get_codec_ext"] = TableOf(kind)[lookup.codec]
                    /\ lookup.answer["get_codec_ext"] # PyFalse

\* C13, witness: "Chapters" was looked up: is_chapter alone answered True
\* and get_codec_ext answered ".txt".
C13_Witness ==
    /\ AllAnswered
    /\ lookup.codec = "Chapters"
    /\ Trues = {"is_chapter"}
    /\ lookup.answer["get_codec_ext"] = ".txt"

\* the line starts, trimmed and whatever the letter case of either, with a
\* configured skip prefix that is not empty
TriggersFolded(l) ==
    \E k \in 1..Len(mod.IGNORE_UNTIL_BLANK_LINE_PREFIXES) :
        /\ mod.IGNORE_UNTIL_BLANK_LINE_PREFIXES[k] # <<>>
        /\ Begins(l, Lower(mod.IGNORE_UNTIL_BLANK_LINE_PREFIXES[k]))

\* C14: a line that is read and starts with a configured skip prefix,
\* letter case apart, sets the soft-skip flag.  (Stated for the lists whose
\* first entry is not empty; the others are the matter of C8.)
C14_PrefixCaseFolded ==
    [][\A c \in Calls :
        (/\ Read(c)
         /\ mod.IGNORE_UNTIL_BLANK_LINE_PREFIXES[1] # <<>>
         /\ TriggersFolded(Line(c)))
            => frame'[c].ignore_next_lines]_vars

\* what the iteration of line l makes of the frame f when the line is
\* classified and no skip prefix is looked at: the section is determined
\* and the line goes to it
Classified(f, l) ==
    LET l2 == Lower(Strip(l))
    IN  Dispatch(DetermineSection(f, l2), l, l2)

\* C15: the iteration that sets the soft-skip flag classifies its line all
\* the same: but for the flag, its outcome (section state, result
\* sequences, exception) is that of the classification of the line with no
\* skip prefix looked at.
C15_TriggerClassified ==
    [][\A c \in Calls :
        (Read(c) /\ frame'[c].ignore_next_lines) =>
            [frame'[c] EXCEPT !.ignore_next_lines = FALSE]
                = Classified([frame[c] EXCEPT !.text = frame'[c].text,
                                              !.i = frame'[c].i], Line(c))]_vars

\* C15, witness: inside the MediaInfo a line started the skipping, and it
\* is a line of the MediaInfo.
C15_Witness ==
    \E c \in Calls :
        /\ frame[c].text = <<LGeneral, LSkip>>
        /\ frame[c].i = 2
        /\ frame[c].ignore_next_lines
        /\ frame[c].sect = "MEDIAINFO"
        /\ frame[c].mediainfo = <<LGeneral, LSkip>>

\* C16: a line that is read, starts none of the four sections and is no
\* "Done." line of an open log leaves the section as it is; a blank line
\* and a skipped line leave sect, sect2 and sect3 as they are.
C16_SectionEvents ==
    [][\A c \in Calls : Stepped(c) =>
        LET f == frame[c]
            g == frame'[c]
            l == Line(c)
        IN  /\ (/\ Read(c)
                /\ ~SectionStart(l)
                /\ ~(f.sect = "EAC3TO_LOG" /\ StartsWith(l, kDone)))
                  => g.sect = f.sect
            /\ (~NonBlank(l) \/ f.ignore_next_lines)
                  => g.sect = f.sect /\ g.sect2 = f.sect2 /\ g.sect3 = f.sect3]_vars

\* C16, witness: a line that starts no section was read inside the
\* MediaInfo, then a video line of a quick summary, and the MediaInfo is
\* still the section.
C16_Witness ==
    \E c \in Calls :
        /\ frame[c].text = <<LGeneral, LPlain, LVideo>>
        /\ frame[c].i = 3
        /\ frame[c].sect = "MEDIAINFO"
        /\ frame[c].mediainfo = <<LGeneral, LPlain, LVideo>>

\* C17: in the playlist report a line that starts with "-" changes no
\* track list, whatever sect2 and sect3 are, and leaves sect and sect2
\* alone; if it is a run of dashes it sets sect3 from sect2 (the inner video
\* part under the video heading, the inner audio part under the audio
\* heading) and otherwise it leaves sect3 alone too.
C17_MinusRows ==
    [][\A c \in Calls :
        (Read(c) /\ frame[c].sect = "PLAYLIST_REPORT" /\ StartsWith(Line(c), <<"-">>)) =>
            LET f == frame[c]
                g == frame'[c]
            IN  /\ g.pc = "loop"
                /\ g.bdinfo = f.bdinfo /\ g.mediainfo = f.mediainfo /\ g.eac3to = f.eac3to
                /\ g.sect = f.sect /\ g.sect2 = f.sect2
                /\ g.sect3 = IF ~StartsWith(Line(c), kDashes) THEN f.sect3
                             ELSE IF f.sect2 = "PLAYLIST_VIDEO" THEN "PLAYLIST_INNER_VIDEO"
                             ELSE IF f.sect2 = "PLAYLIST_AUDIO" THEN "PLAYLIST_INNER_AUDIO"
                             ELSE f.sect3]_vars

\* C17, witness: a row that starts with a minus sign was read in the inner
\* video part of a playlist report, and the video list is empty.
C17_Witness ==
    \E c \in Calls :
        /\ frame[c].text = <<LPlaylist, LHeadVideo, LDashes, LMinus>>
        /\ frame[c].i = 4
        /\ frame[c].sect2 = "PLAYLIST_VIDEO"
        /\ frame[c].sect3 = "PLAYLIST_INNER_VIDEO"
        /\ frame[c].bdinfo.video = <<>>

\* C18: bdinfo has no type when the call begins; a "quick summary" or
\* "playlist report" heading that is read sets the type to its kind,
\* whatever sections were read before it; no other iteration changes the
\* type; and the call returns the type it has.  So the type returned is
\* that of the last heading read, and None when none was read.
C18_ReportKind ==
    /\ [](\A c \in Calls :
             /\ (frame[c].pc = "loop" /\ frame[c].i = 0) => frame[c].bdinfo.type = None
             /\ frame[c].pc = "returned" => frame[c].ret.bdinfo.type = frame[c].bdinfo.type)
    /\ [][\A c \in Calls : Stepped(c) =>
            frame'[c].bdinfo.type =
                IF Read(c) /\ Begins(Line(c), kQuickSummary)
                THEN "BDInfoType.QUICK_SUMMARY"
                ELSE IF Read(c) /\ Begins(Line(c), kPlaylistReport)
                THEN "BDInfoType.PLAYLIST_REPORT"
                ELSE frame[c].bdinfo.type]_vars

\* C18, witness: a quick summary heading, a MediaInfo and then a playlist
\* report heading were read, and the call returned the type of the playlist
\* report.
C18_Witness ==
    \E c \in Calls :
        /\ frame[c].pc = "returned"
        /\ frame[c].text = <<LQuick, LGeneral, LPlaylist>>
        /\ frame[c].ret.mediainfo = <<LGeneral>>
        /\ frame[c].ret.bdinfo.type = "BDInfoType.PLAYLIST_REPORT"

\* the line is a heading of the playlist report: the header of the report
\* or the heading of one of its tables
PlaylistHeadingLine(l) ==
    \/ Begins(l, kPlaylistReport)
    \/ Begins(l, kVideo) \/ Begins(l, kAudio) \/ Begins(l, kSubtitles)
\* among the first n lines of the text, no separator row comes after the
\* last heading of the playlist report and before line n
NoSeparatorYet(text, n) ==
    LET headings == {k \in 1..n : PlaylistHeadingLine(text[k])}
    IN  /\ headings # {}
        /\ \A j \in (Greatest(headings) + 1)..(n - 1) : ~Begins(text[j], kDashes)

\* C19: in the playlist report, with no truncation configured, a line that
\* comes after a heading with no separator row in between, the heading
\* itself included, is not taken as a track row: it changes no track list.
C19_RowsAfterSeparator ==
    [][\A c \in Calls :
        (/\ Read(c)
         /\ TruncationOff
         /\ frame'[c].sect = "PLAYLIST_REPORT"
         /\ NoSeparatorYet(frame'[c].text, frame'[c].i))
            => frame'[c].bdinfo.video = frame[c].bdinfo.video
               /\ frame'[c].bdinfo.audio = frame[c].bdinfo.audio]_vars

\* C20: a line that is read and starts with no configured prefix other
\* than an empty entry of the list does not set the soft-skip flag.
C20_EmptyPrefixNeverTriggers ==
    [][\A c \in Calls :
        (Read(c) /\ ~Triggers(Line(c))) => ~frame'[c].ignore_next_lines]_vars

====
